---- MODULE Spec2Model ----
(***************************************************************************)
(* healer: the executor's instrumentation / JIT path                       *)
(* (executor/src/exec/jit.rs) and the VM lifecycle manager with its port   *)
(* allocator (src/exec/qemu.rs).                                           *)
(*                                                                         *)
(* Three specifications share the module:                                  *)
(*   SpecExec   exec() and the generated `execute` function it runs,       *)
(*              with the controller on the other end of the two channels  *)
(*   SpecBoot   one call of boot() and the life of the handle it returns   *)
(*   SpecPorts  threads reserving and dropping PortGuards concurrently     *)
(***************************************************************************)
EXTENDS Integers, Sequences, FiniteSets, TLC

(* ------------------------------ bounds --------------------------------- *)
\* longest program (number of calls) that is instrumented
MaxCalls == 2
\* largest coverage count (cover[0]) one call leaves behind
MaxCov == 2

\* threads that reserve and drop ports concurrently
NumThreads == 2
\* ports of the scanned range that are modelled, from PortLo up
NumPorts == 3
\* the i32 values given to StatusCode::from are -MaxOrd..MaxOrd
MaxOrd == 12

(* ------------------------- program constants --------------------------- *)
\* sizeof(unsigned long) of the generated C (LP64)
ElemSize == 8
\* the length prefix: memcpy(l, &len, 4); write(data_fd, l, 4)
PrefixSize == 4
\* for p in 1025..65535
PortLo == 1025
\* let mut wait_duration = Duration::from_millis(500)
InitWait == 500
\* let min_wait_duration = Duration::from_millis(100)
min_wait_duration == 100
\* let detla = Duration::from_millis(100)
detla == 100
\* let total = Duration::from_secs(60 * 10), in milliseconds
total == 600000

VARIABLES
    \* ---- exec() ----
    xpc,        \* where exec() is: instrument, new_tcc, compile, relocate,
                \* get_symbol, execute, exited, panicked
    exit_code,  \* "none" until exit(): "OK" or "SOFTWARE" (exitcode::*)
    prog,       \* the Prog given to exec: its calls, 1..Len(prog)
    unit,       \* the execute body instrument_prog built: a sequence of blocks
    \* ---- the generated execute() ----
    gpc,        \* the statement execute() is at
    bi,         \* index into unit of the block being executed
    rc,         \* execute()'s return value, -1 while it has not returned
    fd_open,    \* the kcov descriptor is open
    mapped,     \* the cover buffer is mapped
    cover0,     \* cover[0]
    len,        \* execute's / sync_send's uint32_t len
    cover_,     \* sync_send's cursor, as a byte offset from cover + 1
    \* ---- the two channels and the controller ----
    data,       \* every byte written to data_fd, in order
    drained,    \* how many of them the controller has read
    cstart,     \* where the buffer the controller is reading starts
    event,      \* acknowledgment tokens written and not yet read
    \* ---- history ----
    cov,        \* cov[i]: the count call i left in cover[0], -1 before
    executed,   \* the calls whose statement ran, in order
    acked,      \* the calls whose token sync_send has read
    fail,       \* the step that failed and its call: <<step, call>>, or <<>>
    \* ---- the port allocator ----
    PORTS,      \* the claimed set (static PORTS, once initialised)
    mutex,      \* the threads holding PORTS' mutex: {} or {t}
    poisoned,   \* a thread panicked while holding the mutex
    inuse,      \* ports other programs have bound: bind() fails on them
    tpc,        \* tpc[t]: where thread t is in get_free_port / PortGuard::drop
    cursor,     \* cursor[t]: the p of get_free_port's scan
    ret,        \* ret[t]: the port of the guard get_free_port returned
    dropping,   \* dropping[t]: the port of the guard being dropped
    held,       \* held[t][p]: how many live PortGuards of thread t hold p
    freed,      \* history: the port the last finished drop removed, until a
                \* guard is next handed to its caller
    \* ---- boot() and the handle ----
    bpc,        \* where boot() is
    target_ok,  \* static_conf knows conf.target
    child,      \* the qemu process: none, running, exited (not reaped), reaped
    killed,     \* kill_qemu's SIGKILL reached the running child
    handle,     \* the QemuHandle: none, boot (owned by boot), caller
                \* (returned), consumed (by output()), dropped
    wait_duration,
    waited,
    alive,
    result,     \* what boot returns: [kind, stderr]
    \* ---- history ----
    slept,      \* total time boot has slept
    rounds,     \* polling rounds completed
    dead_round, \* the child had exited when the current round began
    probe_ok,   \* a probe of boot returned Ok(true)
    logs_read,  \* output() has read the captured stdout / stderr
    last_probe, \* the caller's last is_alive(): none, true, false, err
    ssh_port,   \* the handle's ssh_port: ssh_fwd_port.0, 0 before it is built
    \* ---- StatusCode conversions ----
    variant,    \* a StatusCode value
    ord,        \* an i32
    encoded,    \* ord is `variant as i32`
    decoded,    \* StatusCode::from(ord): "none" before, "unreachable" on panic
    \* ---- bg_exec() ----
    bg_pc,      \* where bg_exec() is: uncalled, start, check, new_tcc, compile,
                \* run, returned, panicked, exited
    bg_src,     \* the text c::to_prog gave: its statements, in order
    cc_made,    \* compilers bg_exec has created (new_tcc)
    compiled,   \* compile_string has been called
    ran,        \* cc.run has been called
    \* ---- instrument_prog's include set ----
    iprog,      \* a program: the function descriptor of each call
    iprog2,     \* the same program with a call repeated or two calls exchanged
    includes,   \* the include set of iprog
    includes2,  \* the include set of iprog2
    idone       \* which of the two have been instrumented: a subset of {1, 2}

execVars == <<xpc, exit_code, prog, unit, gpc, bi, rc, fd_open, mapped, cover0,
              len, cover_, data, drained, cstart, event, cov, executed, acked,
              fail>>

portVars == <<PORTS, mutex, poisoned, inuse, tpc, cursor, ret, dropping, held,
              freed>>

bootVars == <<bpc, target_ok, child, killed, handle, wait_duration, waited,
              alive, result, slept, rounds, dead_round, probe_ok, logs_read,
              last_probe, ssh_port>>

statusVars == <<variant, ord, encoded, decoded>>

\* the state of the functions that are specified on their own
bgVars == <<bg_pc, bg_src, cc_made, compiled, ran>>

instrVars == <<iprog, iprog2, includes, includes2, idone>>

fnVars == <<statusVars, bgVars, instrVars>>

vars == <<execVars, portVars, bootVars, fnVars>>

(* ------------------------------ StatusCode ------------------------------ *)
StatusCodes == <<"Ok", "KcovOpenErr", "KcovCloseErr", "KcovInitErr",
                 "KcovEnableErr", "KcovDisableErr", "CovSendErr", "MmapErr">>

\* mutant of AsI32: the discriminants counted from Ok = 1
AsI32_FromOne(v) == CHOOSE k \in 1..Len(StatusCodes) : StatusCodes[k] = v

\* `StatusCode::X as i32`: the discriminant, counted from Ok = 0
AsI32(v) == (CHOOSE k \in 1..Len(StatusCodes) : StatusCodes[k] = v) - 1

\* mutant of From: the arms of 2 and 3 are exchanged
From_ArmsSwapped(val) ==
    CASE val = 0 -> "Ok"
      [] val = 1 -> "KcovOpenErr"
      [] val = 2 -> "KcovInitErr"
      [] val = 3 -> "KcovCloseErr"
      [] val = 4 -> "KcovEnableErr"
      [] val = 5 -> "KcovDisableErr"
      [] val = 6 -> "CovSendErr"
      [] val = 7 -> "MmapErr"
      [] OTHER -> "unreachable"

\* impl From<i32> for StatusCode
From(val) ==
    CASE val = 0 -> "Ok"
      [] val = 1 -> "KcovOpenErr"
      [] val = 2 -> "KcovCloseErr"
      [] val = 3 -> "KcovInitErr"
      [] val = 4 -> "KcovEnableErr"
      [] val = 5 -> "KcovDisableErr"
      [] val = 6 -> "CovSendErr"
      [] val = 7 -> "MmapErr"
      [] OTHER -> "unreachable"

\* the variants of the enum
Variants == {StatusCodes[k] : k \in 1..Len(StatusCodes)}

\* no conversion has been asked for
StatusIdle ==
    /\ variant = "Ok"
    /\ ord = 0
    /\ encoded = FALSE
    /\ decoded = "none"

\* `variant as i32`
Encode ==
    /\ ~encoded
    /\ decoded = "none"
    /\ ord' = AsI32(variant)
    /\ encoded' = TRUE
    /\ UNCHANGED <<variant, decoded>>
    /\ UNCHANGED <<execVars, portVars, bootVars, bgVars, instrVars>>

\* StatusCode::from(ord); unreachable!() panics
Decode ==
    /\ decoded = "none"
    /\ decoded' = From(ord)
    /\ UNCHANGED <<variant, ord, encoded>>
    /\ UNCHANGED <<execVars, portVars, bootVars, bgVars, instrVars>>

(* --------------------------- instrument_prog ---------------------------- *)
\* let mut includes = hashset!{ .. }: the headers the harness itself needs
Baseline ==
    {"stdio.h", "stddef.h", "stdint.h", "stdlib.h", "sys/types.h",
     "sys/stat.h", "sys/ioctl.h", "sys/mman.h", "unistd.h", "fcntl.h",
     "string.h"}

\* CTHS, the static catalog from call name to headers: one entry with a
\* baseline header and a new one, one entry sharing the new one; "mmap" has
\* no entry
CTHS == [n \in {"open", "read"} |->
            IF n = "open" THEN <<"fcntl.h", "foo.h">> ELSE <<"foo.h">>]

CallNames == {"open", "read", "mmap"}

\* fn_info.get_attr("inc"): no such attribute, the attribute without vals,
\* or the attribute with its vals
IncAttrs ==
    {[attr |-> FALSE, some |-> FALSE, vals |-> <<>>],
     [attr |-> TRUE, some |-> FALSE, vals |-> <<>>],
     [attr |-> TRUE, some |-> TRUE, vals |-> <<"bar.h", "foo.h">>]}

\* t.fn_of(p.calls[i].fid): the function descriptors of the target
FnInfos == [call_name : CallNames, inc : IncAttrs]

\* let mut header = if let Some(h) = CTHS.get(&call_name) { h.. } else
\* { Default::default() };  if let Some(attr) = fn_info.get_attr("inc") {
\* if let Some(vals) = attr.vals.as_ref() { for val in vals { header.push(val) }}}
Header(fn_info) ==
    (IF fn_info.call_name \in DOMAIN CTHS THEN CTHS[fn_info.call_name]
     ELSE <<>>)
      \o (IF fn_info.inc.attr /\ fn_info.inc.some THEN fn_info.inc.vals
          ELSE <<>>)

\* mutant of Extend: the set is replaced by the call's headers
Extend_Replace(set, header) == {header[k] : k \in DOMAIN header}

\* includes.extend(header), on a HashSet
Extend(set, header) == set \cup {header[k] : k \in DOMAIN header}

\* the loop over the calls, from call i on, with the set built so far
RECURSIVE Aggregate(_, _, _)
Aggregate(p, i, set) ==
    IF i > Len(p) THEN set
    ELSE Aggregate(p, i + 1, Extend(set, Header(p[i])))

\* the include set instrument_prog writes out for program p
Includes(p) == Aggregate(p, 1, Baseline)

\* instrument_prog has not been called on a program with descriptors
InstrIdle ==
    /\ iprog = <<>>
    /\ iprog2 = <<>>
    /\ includes = {}
    /\ includes2 = {}
    /\ idone = {}

\* instrument_prog(iprog, ..)
InstrumentProg ==
    /\ 1 \notin idone
    /\ includes' = Includes(iprog)
    /\ idone' = idone \cup {1}
    /\ UNCHANGED <<iprog, iprog2, includes2>>
    /\ UNCHANGED <<execVars, portVars, bootVars, statusVars, bgVars>>

\* instrument_prog(iprog2, ..)
InstrumentProg2 ==
    /\ 2 \notin idone
    /\ includes2' = Includes(iprog2)
    /\ idone' = idone \cup {2}
    /\ UNCHANGED <<iprog, iprog2, includes>>
    /\ UNCHANGED <<execVars, portVars, bootVars, statusVars, bgVars>>

\* mutant of Stmts: the last statement gets no bracket
Stmts_DropLast(p) == [i \in 1..(Len(p) - 1) |-> [kind |-> "stmt", call |-> i]]

\* one coverage bracket per statement of iter_trans(p, t), in program order
Stmts(p) == [i \in 1..Len(p) |-> [kind |-> "stmt", call |-> i]]

\* execute = kcov_open, the stmts, clean
ExecuteBody(p) ==
    <<[kind |-> "kcov_open", call |-> 0]>> \o Stmts(p)
        \o <<[kind |-> "clean", call |-> 0]>>

(* ------------------------ the generated execute() ----------------------- *)
\* the statement a block starts with
BlockEntry(b) ==
    CASE b.kind = "kcov_open" -> "open"
      [] b.kind = "stmt" -> "enable"
      [] b.kind = "clean" -> "munmap"

\* the call whose bracket is being executed (0 in setup and teardown)
CurCall == IF bi \in 1..Len(unit) THEN unit[bi].call ELSE 0

\* `return <status>;` out of execute(): nothing after it runs
Return(status, step) ==
    /\ gpc' = "returned"
    /\ rc' = AsI32(status)
    /\ fail' = IF step = "" THEN <<>> ELSE <<step, CurCall>>
    /\ bi' = bi

\* falling through to the block that follows in the body
NextBlock ==
    /\ bi' = bi + 1
    /\ gpc' = BlockEntry(unit[bi + 1])
    /\ UNCHANGED <<rc, fail>>

\* n bytes of kind k written for the current call, from index `from`
Bytes(k, from, n, val) ==
    [j \in 1..n |-> [call |-> CurCall, kind |-> k, idx |-> from + j - 1,
                     val |-> val]]

Running == xpc = "execute"

\* fd = open("/sys/kernel/debug/kcov", O_RDWR); if (fd == -1) return 1;
KcovOpen ==
    /\ Running /\ gpc = "open"
    /\ \/ /\ fd_open' = TRUE
          /\ gpc' = "init_trace"
          /\ UNCHANGED <<bi, rc, fail>>
       \/ /\ Return("KcovOpenErr", "open")
          /\ UNCHANGED fd_open
    /\ UNCHANGED <<xpc, exit_code, prog, unit, mapped, cover0, len, cover_,
                   data, drained, cstart, event, cov, executed, acked>>
    /\ UNCHANGED <<portVars, bootVars, fnVars>>

\* if (ioctl(fd, KCOV_INIT_TRACE, COVER_SIZE)) return 3;
KcovInitTrace ==
    /\ Running /\ gpc = "init_trace"
    /\ \/ /\ gpc' = "mmap"
          /\ UNCHANGED <<bi, rc, fail>>
       \/ Return("KcovInitErr", "init_trace")
    /\ UNCHANGED <<xpc, exit_code, prog, unit, fd_open, mapped, cover0, len,
                   cover_, data, drained, cstart, event, cov, executed, acked>>
    /\ UNCHANGED <<portVars, bootVars, fnVars>>

\* cover = mmap(...); if ((void*)cover == MAP_FAILED) return 7;
KcovMmap ==
    /\ Running /\ gpc = "mmap"
    /\ \/ /\ mapped' = TRUE
          /\ NextBlock
       \/ /\ Return("MmapErr", "mmap")
          /\ UNCHANGED mapped
    /\ UNCHANGED <<xpc, exit_code, prog, unit, fd_open, cover0, len, cover_,
                   data, drained, cstart, event, cov, executed, acked>>
    /\ UNCHANGED <<portVars, bootVars, fnVars>>

\* if (ioctl(fd, KCOV_ENABLE, KCOV_TRACE_PC)) return 4;  cover[0] = 0;
KcovEnable ==
    /\ Running /\ gpc = "enable"
    /\ \/ /\ cover0' = 0
          /\ gpc' = "call"
          /\ UNCHANGED <<bi, rc, fail>>
       \/ /\ Return("KcovEnableErr", "enable")
          /\ UNCHANGED cover0
    /\ UNCHANGED <<xpc, exit_code, prog, unit, fd_open, mapped, len, cover_,
                   data, drained, cstart, event, cov, executed, acked>>
    /\ UNCHANGED <<portVars, bootVars, fnVars>>

\* the translated call statement runs and the kernel counts its coverage
\* in cover[0];  len = cover[0];  the kernel keeps cover[0] below COVER_SIZE
\* (2^20), so neither the uint32_t len nor len * 8 wraps
CallStmt ==
    /\ Running /\ gpc = "call"
    /\ \E c \in 0..MaxCov :
          /\ cover0' = c
          /\ len' = c
          /\ cov' = [cov EXCEPT ![CurCall] = c]
    /\ executed' = Append(executed, CurCall)
    /\ gpc' = "disable"
    /\ UNCHANGED <<xpc, exit_code, prog, unit, bi, rc, fd_open, mapped, cover_,
                   data, drained, cstart, event, acked, fail>>
    /\ UNCHANGED <<portVars, bootVars, fnVars>>

\* mutant of KcovDisable: the ioctl's failure is not returned
KcovDisable_NoReturn ==
    /\ Running /\ gpc = "disable"
    /\ \/ /\ gpc' = "sync_send"
          /\ UNCHANGED <<bi, rc, fail>>
       \/ /\ gpc' = "sync_send"
          /\ fail' = <<"disable", CurCall>>
          /\ UNCHANGED <<bi, rc>>
    /\ UNCHANGED <<xpc, exit_code, prog, unit, fd_open, mapped, cover0, len,
                   cover_, data, drained, cstart, event, cov, executed, acked>>
    /\ UNCHANGED <<portVars, bootVars, fnVars>>

\* if (ioctl(fd, KCOV_DISABLE, 0)) return 5;
KcovDisable ==
    /\ Running /\ gpc = "disable"
    /\ \/ /\ gpc' = "sync_send"
          /\ UNCHANGED <<bi, rc, fail>>
       \/ Return("KcovDisableErr", "disable")
    /\ UNCHANGED <<xpc, exit_code, prog, unit, fd_open, mapped, cover0, len,
                   cover_, data, drained, cstart, event, cov, executed, acked>>
    /\ UNCHANGED <<portVars, bootVars, fnVars>>

\* mutant of SyncSendZero: no early return for len == 0; the prefix is
\* written, the loop's write of 0 bytes ends it and the token is awaited
SyncSendZero_NoCheck ==
    /\ Running /\ gpc = "sync_send"
    /\ len = 0
    /\ data' = data \o Bytes("len", 0, PrefixSize, len)
    /\ cover_' = 0
    /\ gpc' = "read"
    /\ UNCHANGED <<xpc, exit_code, prog, unit, bi, rc, fail, fd_open, mapped,
                   cover0, len, drained, cstart, event, cov, executed, acked>>
    /\ UNCHANGED <<portVars, bootVars, fnVars>>

\* sync_send(cover, len): if (len == 0) return 0;  and the caller goes on
SyncSendZero ==
    /\ Running /\ gpc = "sync_send"
    /\ len = 0
    /\ NextBlock
    /\ UNCHANGED <<xpc, exit_code, prog, unit, fd_open, mapped, cover0, len,
                   cover_, data, drained, cstart, event, cov, executed, acked>>
    /\ UNCHANGED <<portVars, bootVars, fnVars>>

\* cover_ = cover + 1; memcpy(l, &len, 4);
\* if (write(data_fd, l, 4) == -1) return -1;  len = len * sizeof(unsigned long);
\* a failed sync_send makes execute return 6
SyncSendLen ==
    /\ Running /\ gpc = "sync_send"
    /\ len # 0
    /\ \/ /\ data' = data \o Bytes("len", 0, PrefixSize, len)
          /\ len' = len * ElemSize
          /\ cover_' = 0
          /\ gpc' = "write"
          /\ UNCHANGED <<bi, rc, fail>>
       \/ /\ Return("CovSendErr", "write_len")
          /\ UNCHANGED <<data, len, cover_>>
    /\ UNCHANGED <<xpc, exit_code, prog, unit, fd_open, mapped, cover0,
                   drained, cstart, event, cov, executed, acked>>
    /\ UNCHANGED <<portVars, bootVars, fnVars>>

\* mutant of SyncWrite: the cursor is not moved past what was written
SyncWrite_NoAdvance ==
    /\ Running /\ gpc = "write"
    /\ \/ \E l2 \in 1..len :
            /\ data' = data \o Bytes("cov", cover_, l2, 0)
            /\ len' = len - l2
            /\ cover_' = cover_
            /\ gpc' = IF len' = 0 THEN "read" ELSE "write"
            /\ UNCHANGED <<bi, rc, fail>>
       \/ /\ Return("CovSendErr", "write_cov")
          /\ UNCHANGED <<data, len, cover_>>
    /\ UNCHANGED <<xpc, exit_code, prog, unit, fd_open, mapped, cover0,
                   drained, cstart, event, cov, executed, acked>>
    /\ UNCHANGED <<portVars, bootVars, fnVars>>

\* while(1){ l2 = write(data_fd, cover_, len); if (l2 == -1) return -1;
\*           len -= l2; cover_ += l2; if (len == 0) break; }
\* write() takes any part of what is left (a short write) or fails
SyncWrite ==
    /\ Running /\ gpc = "write"
    /\ \/ \E l2 \in 1..len :
            /\ data' = data \o Bytes("cov", cover_, l2, 0)
            /\ len' = len - l2
            /\ cover_' = cover_ + l2
            /\ gpc' = IF len' = 0 THEN "read" ELSE "write"
            /\ UNCHANGED <<bi, rc, fail>>
       \/ /\ Return("CovSendErr", "write_cov")
          /\ UNCHANGED <<data, len, cover_>>
    /\ UNCHANGED <<xpc, exit_code, prog, unit, fd_open, mapped, cover0,
                   drained, cstart, event, cov, executed, acked>>
    /\ UNCHANGED <<portVars, bootVars, fnVars>>

\* mutant of SyncRead: the token is not waited for
SyncRead_NoWait ==
    /\ Running /\ gpc = "read"
    /\ \/ /\ NextBlock
          /\ UNCHANGED <<event, acked>>
       \/ /\ Return("CovSendErr", "read_event")
          /\ UNCHANGED <<event, acked>>
    /\ UNCHANGED <<xpc, exit_code, prog, unit, fd_open, mapped, cover0, len,
                   cover_, data, drained, cstart, cov, executed>>
    /\ UNCHANGED <<portVars, bootVars, fnVars>>

\* if (read(event_fd, event, 8) == -1) return -1;  return 0;
\* the read blocks until the controller's token is there
SyncRead ==
    /\ Running /\ gpc = "read"
    /\ \/ /\ event > 0
          /\ event' = event - 1
          /\ acked' = acked \cup {CurCall}
          /\ NextBlock
       \/ /\ Return("CovSendErr", "read_event")
          /\ UNCHANGED <<event, acked>>
    /\ UNCHANGED <<xpc, exit_code, prog, unit, fd_open, mapped, cover0, len,
                   cover_, data, drained, cstart, cov, executed>>
    /\ UNCHANGED <<portVars, bootVars, fnVars>>

\* if (munmap(cover, COVER_SIZE * sizeof(unsigned long))) return 7;
Munmap ==
    /\ Running /\ gpc = "munmap"
    /\ \/ /\ mapped' = FALSE
          /\ gpc' = "close"
          /\ UNCHANGED <<bi, rc, fail>>
       \/ /\ Return("MmapErr", "munmap")
          /\ UNCHANGED mapped
    /\ UNCHANGED <<xpc, exit_code, prog, unit, fd_open, cover0, len, cover_,
                   data, drained, cstart, event, cov, executed, acked>>
    /\ UNCHANGED <<portVars, bootVars, fnVars>>

\* if (close(fd)) return 2;  return 0;
Close ==
    /\ Running /\ gpc = "close"
    /\ \/ /\ fd_open' = FALSE
          /\ Return("Ok", "")
       \/ /\ Return("KcovCloseErr", "close")
          /\ UNCHANGED fd_open
    /\ UNCHANGED <<xpc, exit_code, prog, unit, mapped, cover0, len, cover_,
                   data, drained, cstart, event, cov, executed, acked>>
    /\ UNCHANGED <<portVars, bootVars, fnVars>>

Execute ==
    \/ KcovOpen \/ KcovInitTrace \/ KcovMmap
    \/ KcovEnable \/ CallStmt \/ KcovDisable
    \/ SyncSendZero \/ SyncSendLen \/ SyncWrite \/ SyncRead
    \/ Munmap \/ Close

(* ------------------------------- exec() --------------------------------- *)
genVars == <<gpc, bi, rc, fd_open, mapped, cover0, len, cover_, data, drained,
             cstart, event, cov, executed, acked, fail>>

\* exit(code): the process is gone
Exit(code) ==
    /\ xpc' = "exited"
    /\ exit_code' = code

\* a panic (unwrap on None / Err, unreachable!()): no exit(), no return
Panic ==
    /\ xpc' = "panicked"
    /\ UNCHANGED exit_code

\* let p = instrument_prog(p, t, ..).unwrap_or_else(|e| exit(SOFTWARE));
\* instrument_prog has no Err return: it ends in Ok(buf)
Instrument ==
    /\ xpc = "instrument"
    /\ unit' = ExecuteBody(prog)
    /\ xpc' = "new_tcc"
    /\ UNCHANGED <<exit_code, prog, genVars>>
    /\ UNCHANGED <<portVars, bootVars, fnVars>>

\* let mut cc = new_tcc(): the search paths are added with unwrap(),
\* set_output_type with unwrap_or_else(exits!(SOFTWARE))
NewTcc ==
    /\ xpc = "new_tcc"
    /\ \/ /\ xpc' = "compile"
          /\ UNCHANGED exit_code
       \/ Panic
       \/ Exit("SOFTWARE")
    /\ UNCHANGED <<prog, unit, genVars>>
    /\ UNCHANGED <<portVars, bootVars, fnVars>>

\* cc.compile_string(&p).unwrap_or_else(|_| exits!(SOFTWARE, ..))
Compile ==
    /\ xpc = "compile"
    /\ \/ /\ xpc' = "relocate"
          /\ UNCHANGED exit_code
       \/ Exit("SOFTWARE")
    /\ UNCHANGED <<prog, unit, genVars>>
    /\ UNCHANGED <<portVars, bootVars, fnVars>>

\* cc.relocate().unwrap_or_else(|_| exits!(SOFTWARE, ..))
Relocate ==
    /\ xpc = "relocate"
    /\ \/ /\ xpc' = "get_symbol"
          /\ UNCHANGED exit_code
       \/ Exit("SOFTWARE")
    /\ UNCHANGED <<prog, unit, genVars>>
    /\ UNCHANGED <<portVars, bootVars, fnVars>>

\* let symbol = p.get_symbol("execute").unwrap();  let code = execute();
GetSymbol ==
    /\ xpc = "get_symbol"
    /\ \/ /\ xpc' = "execute"
          /\ gpc' = BlockEntry(unit[1])
          /\ bi' = 1
          /\ UNCHANGED exit_code
       \/ /\ Panic
          /\ UNCHANGED <<gpc, bi>>
    /\ UNCHANGED <<prog, unit, rc, fd_open, mapped, cover0, len, cover_, data,
                   drained, cstart, event, cov, executed, acked, fail>>
    /\ UNCHANGED <<portVars, bootVars, fnVars>>

\* if code == 0 { exit(OK) } else { exits!(SOFTWARE, .., StatusCode::from(code)) }
ExecExit ==
    /\ xpc = "execute" /\ gpc = "returned"
    /\ IF rc = 0 THEN Exit("OK")
       ELSE IF From(rc) = "unreachable" THEN Panic
       ELSE Exit("SOFTWARE")
    /\ UNCHANGED <<prog, unit, genVars>>
    /\ UNCHANGED <<portVars, bootVars, fnVars>>

(* ------------------------------ bg_exec() ------------------------------- *)
\* c::to_prog(p, t): the program in native call syntax, one statement per
\* call in program order and no coverage brackets
to_prog(p) == [i \in 1..Len(p) |-> i]

\* bg_exec has not been called
BgIdle ==
    /\ bg_pc = "uncalled"
    /\ bg_src = <<>>
    /\ cc_made = 0
    /\ compiled = FALSE
    /\ ran = FALSE

\* let p = c::to_prog(p, t);
BgTranslate ==
    /\ bg_pc = "start"
    /\ bg_src' = to_prog(prog)
    /\ bg_pc' = "check"
    /\ UNCHANGED <<cc_made, compiled, ran>>
    /\ UNCHANGED <<execVars, portVars, bootVars, statusVars, instrVars>>

\* mutant of BgCheck: the text is compiled whether or not it is empty
BgCheck_NoEmptyTest ==
    /\ bg_pc = "check"
    /\ bg_pc' = "new_tcc"
    /\ UNCHANGED <<bg_src, cc_made, compiled, ran>>
    /\ UNCHANGED <<execVars, portVars, bootVars, statusVars, instrVars>>

\* if !p.is_empty() { .. }
BgCheck ==
    /\ bg_pc = "check"
    /\ bg_pc' = IF bg_src # <<>> THEN "new_tcc" ELSE "returned"
    /\ UNCHANGED <<bg_src, cc_made, compiled, ran>>
    /\ UNCHANGED <<execVars, portVars, bootVars, statusVars, instrVars>>

\* let mut cc = new_tcc(): the search paths are added with unwrap(),
\* set_output_type with unwrap_or_else(exits!(SOFTWARE))
BgNewTcc ==
    /\ bg_pc = "new_tcc"
    /\ cc_made' = cc_made + 1
    /\ bg_pc' \in {"compile", "panicked", "exited"}
    /\ UNCHANGED <<bg_src, compiled, ran>>
    /\ UNCHANGED <<execVars, portVars, bootVars, statusVars, instrVars>>

\* cc.compile_string(&p).unwrap();
BgCompile ==
    /\ bg_pc = "compile"
    /\ compiled' = TRUE
    /\ bg_pc' \in {"run", "panicked"}
    /\ UNCHANGED <<bg_src, cc_made, ran>>
    /\ UNCHANGED <<execVars, portVars, bootVars, statusVars, instrVars>>

\* cc.run(&["healer-executor-bg-exec"]).unwrap()
BgRun ==
    /\ bg_pc = "run"
    /\ ran' = TRUE
    /\ bg_pc' \in {"returned", "panicked"}
    /\ UNCHANGED <<bg_src, cc_made, compiled>>
    /\ UNCHANGED <<execVars, portVars, bootVars, statusVars, instrVars>>

(* --------------------------- the controller ----------------------------- *)
\* the element count the buffer at cstart declares, once its prefix is read
Declared == data[cstart + 1].val

\* where the buffer at cstart ends: its prefix, then count * element_size
BufEnd ==
    IF drained < cstart + PrefixSize THEN cstart + PrefixSize
    ELSE cstart + PrefixSize + Declared * ElemSize

\* the controller reads what is there, first the prefix, then the payload
CtrlDrain ==
    /\ drained < BufEnd
    /\ drained < Len(data)
    /\ \E k \in 1..(BufEnd - drained) :
          /\ drained + k <= Len(data)
          /\ drained' = drained + k
    /\ UNCHANGED <<xpc, exit_code, prog, unit, gpc, bi, rc, fd_open, mapped,
                   cover0, len, cover_, data, cstart, event, cov, executed,
                   acked, fail>>
    /\ UNCHANGED <<portVars, bootVars, fnVars>>

\* with the declared length drained, the controller writes the 8-byte token
CtrlAck ==
    /\ drained >= cstart + PrefixSize
    /\ drained = BufEnd
    /\ event' = event + 1
    /\ cstart' = drained
    /\ UNCHANGED <<xpc, exit_code, prog, unit, gpc, bi, rc, fd_open, mapped,
                   cover0, len, cover_, data, drained, cov, executed, acked,
                   fail>>
    /\ UNCHANGED <<portVars, bootVars, fnVars>>

(* ========================= the port allocator =========================== *)
\* the scanned range, 1025..65535, cut to its first NumPorts ports
PortRange == PortLo..(PortLo + NumPorts - 1)

\* the thread that runs boot()
BootThread == 0
Workers == 1..NumThreads
Threads == {BootThread} \cup Workers

\* TcpListener::bind((Ipv4Addr::LOCALHOST, p)).is_ok(): the listener is
\* dropped at once, so the probe leaves nothing bound
Bindable(p) == p \notin inuse

\* mutant of InsertOk: membership is not looked at
InsertOk_Always(p) == TRUE

\* g.insert(p): true when p was not in the set
InsertOk(p) == p \notin PORTS

\* live PortGuards holding port p, over all threads
LiveCount(p) ==
    LET RECURSIVE Sum(_)
        Sum(T) == IF T = {} THEN 0
                  ELSE LET t == CHOOSE x \in T : TRUE
                       IN held[t][p] + Sum(T \ {t})
    IN Sum(Threads)

\* get_free_port: PORTS.as_ref().unwrap().lock().unwrap(); the scan starts
\* at the low end of the range. lock() blocks while another thread holds the
\* mutex and its unwrap() panics on a poisoned mutex.
GfpLock(t) ==
    /\ tpc[t] = "call"
    /\ mutex = {}
    /\ IF poisoned
       THEN /\ tpc' = [tpc EXCEPT ![t] = "panicked"]
            /\ UNCHANGED <<mutex, cursor>>
       ELSE /\ mutex' = {t}
            /\ cursor' = [cursor EXCEPT ![t] = PortLo]
            /\ tpc' = [tpc EXCEPT ![t] = "scan"]
    /\ UNCHANGED <<PORTS, poisoned, inuse, ret, dropping, held, freed>>
    /\ UNCHANGED <<execVars, bootVars, fnVars>>

\* mutant of GfpScan: the port is inserted before bind() is tried
GfpScan_InsertFirst(t) ==
    /\ tpc[t] = "scan"
    /\ LET p == cursor[t] IN
       IF p \notin PortRange
       THEN /\ tpc' = [tpc EXCEPT ![t] = "none"]
            /\ mutex' = {}
            /\ cursor' = [cursor EXCEPT ![t] = PortLo]
            /\ UNCHANGED <<PORTS, ret>>
       ELSE IF InsertOk(p) /\ Bindable(p)
       THEN /\ PORTS' = PORTS \cup {p}
            /\ ret' = [ret EXCEPT ![t] = p]
            /\ tpc' = [tpc EXCEPT ![t] = "some"]
            /\ mutex' = {}
            /\ cursor' = [cursor EXCEPT ![t] = PortLo]
       ELSE /\ cursor' = [cursor EXCEPT ![t] = p + 1]
            /\ PORTS' = PORTS \cup {p}
            /\ UNCHANGED <<mutex, ret, tpc>>
    /\ UNCHANGED <<poisoned, inuse, dropping, held, freed>>
    /\ UNCHANGED <<execVars, bootVars, fnVars>>

\* mutant of GfpScan: the scan gives up at the first port bind() fails on
GfpScan_StopAtBusy(t) ==
    /\ tpc[t] = "scan"
    /\ LET p == cursor[t] IN
       IF p \notin PortRange \/ ~Bindable(p)
       THEN /\ tpc' = [tpc EXCEPT ![t] = "none"]
            /\ mutex' = {}
            /\ cursor' = [cursor EXCEPT ![t] = PortLo]
            /\ UNCHANGED <<PORTS, ret>>
       ELSE IF InsertOk(p)
       THEN /\ PORTS' = PORTS \cup {p}
            /\ ret' = [ret EXCEPT ![t] = p]
            /\ tpc' = [tpc EXCEPT ![t] = "some"]
            /\ mutex' = {}
            /\ cursor' = [cursor EXCEPT ![t] = PortLo]
       ELSE /\ cursor' = [cursor EXCEPT ![t] = p + 1]
            /\ UNCHANGED <<PORTS, mutex, ret, tpc>>
    /\ UNCHANGED <<poisoned, inuse, dropping, held, freed>>
    /\ UNCHANGED <<execVars, bootVars, fnVars>>

\* one round of  for p in 1025..65535 { if bind(p).is_ok() && g.insert(p)
\*   { return Some(PortGuard(p)) } }  None  ; returning releases the mutex
GfpScan(t) ==
    /\ tpc[t] = "scan"
    /\ LET p == cursor[t] IN
       IF p \notin PortRange
       THEN /\ tpc' = [tpc EXCEPT ![t] = "none"]
            /\ mutex' = {}
            /\ cursor' = [cursor EXCEPT ![t] = PortLo]
            /\ UNCHANGED <<PORTS, ret>>
       ELSE IF Bindable(p) /\ InsertOk(p)
       THEN /\ PORTS' = PORTS \cup {p}
            /\ ret' = [ret EXCEPT ![t] = p]
            /\ tpc' = [tpc EXCEPT ![t] = "some"]
            /\ mutex' = {}
            /\ cursor' = [cursor EXCEPT ![t] = PortLo]
       ELSE /\ cursor' = [cursor EXCEPT ![t] = p + 1]
            /\ UNCHANGED <<PORTS, mutex, ret, tpc>>
    /\ UNCHANGED <<poisoned, inuse, dropping, held, freed>>
    /\ UNCHANGED <<execVars, bootVars, fnVars>>

\* impl Drop for PortGuard: PORTS.as_ref().unwrap().lock().unwrap()
DropLock(t, p) ==
    /\ tpc[t] = "idle"
    /\ held[t][p] > 0
    /\ mutex = {}
    /\ held' = [held EXCEPT ![t][p] = @ - 1]
    /\ IF poisoned
       THEN /\ tpc' = [tpc EXCEPT ![t] = "panicked"]
            /\ UNCHANGED <<mutex, dropping>>
       ELSE /\ mutex' = {t}
            /\ dropping' = [dropping EXCEPT ![t] = p]
            /\ tpc' = [tpc EXCEPT ![t] = "drop"]
    /\ UNCHANGED <<PORTS, poisoned, inuse, cursor, ret, freed>>
    /\ UNCHANGED <<execVars, bootVars, fnVars>>

\* assert!(g.remove(&self.0)): a failed assertion panics with the mutex held
DropRemove(t) ==
    /\ tpc[t] = "drop"
    /\ IF dropping[t] \in PORTS
       THEN /\ PORTS' = PORTS \ {dropping[t]}
            /\ freed' = {dropping[t]}
            /\ tpc' = [tpc EXCEPT ![t] = "idle"]
            /\ UNCHANGED poisoned
       ELSE /\ tpc' = [tpc EXCEPT ![t] = "panicked"]
            /\ poisoned' = TRUE
            /\ UNCHANGED <<PORTS, freed>>
    /\ mutex' = {}
    /\ dropping' = [dropping EXCEPT ![t] = PortLo]
    /\ UNCHANGED <<inuse, cursor, ret, held>>
    /\ UNCHANGED <<execVars, bootVars, fnVars>>

\* a thread calls get_free_port()
WorkerCall(t) ==
    /\ tpc[t] = "idle"
    /\ tpc' = [tpc EXCEPT ![t] = "call"]
    /\ UNCHANGED <<PORTS, mutex, poisoned, inuse, cursor, ret, dropping, held,
                   freed>>
    /\ UNCHANGED <<execVars, bootVars, fnVars>>

\* Some(PortGuard(p)) reaches the caller, who keeps the guard alive
WorkerSome(t) ==
    /\ tpc[t] = "some"
    /\ held' = [held EXCEPT ![t][ret[t]] = @ + 1]
    /\ ret' = [ret EXCEPT ![t] = PortLo]
    /\ tpc' = [tpc EXCEPT ![t] = "idle"]
    /\ freed' = {}
    /\ UNCHANGED <<PORTS, mutex, poisoned, inuse, cursor, dropping>>
    /\ UNCHANGED <<execVars, bootVars, fnVars>>

\* None reaches the caller
WorkerNone(t) ==
    /\ tpc[t] = "none"
    /\ tpc' = [tpc EXCEPT ![t] = "idle"]
    /\ UNCHANGED <<PORTS, mutex, poisoned, inuse, cursor, ret, dropping, held,
                   freed>>
    /\ UNCHANGED <<execVars, bootVars, fnVars>>

\* another program binds or releases a port of the range
EnvPort(p) ==
    /\ inuse' = IF p \in inuse THEN inuse \ {p} ELSE inuse \cup {p}
    /\ UNCHANGED <<PORTS, mutex, poisoned, cursor, ret, dropping, held, tpc,
                   freed>>
    /\ UNCHANGED <<execVars, bootVars, fnVars>>

\* no thread is in the allocator and no guard is alive
PortsIdle ==
    /\ PORTS = {}
    /\ mutex = {}
    /\ poisoned = FALSE
    /\ inuse = {}
    /\ tpc = [t \in Threads |-> "idle"]
    /\ cursor = [t \in Threads |-> PortLo]
    /\ ret = [t \in Threads |-> PortLo]
    /\ dropping = [t \in Threads |-> PortLo]
    /\ freed = {}
    /\ held = [t \in Threads |-> [p \in PortRange |-> 0]]

\* boot() has not been called
BootIdle ==
    /\ bpc = "start"
    /\ target_ok = TRUE
    /\ child = "none"
    /\ killed = FALSE
    /\ handle = "none"
    /\ wait_duration = InitWait
    /\ waited = 0
    /\ alive = FALSE
    /\ result = [kind |-> "none", stderr |-> FALSE]
    /\ slept = 0
    /\ rounds = 0
    /\ dead_round = FALSE
    /\ probe_ok = FALSE
    /\ logs_read = FALSE
    /\ last_probe = "none"
    /\ ssh_port = 0

\* exec() has not been called
ExecIdle ==
    /\ xpc = "instrument"
    /\ exit_code = "none"
    /\ prog = <<>>
    /\ unit = <<>>
    /\ gpc = "notrun"
    /\ bi = 0
    /\ rc = -1
    /\ fd_open = FALSE
    /\ mapped = FALSE
    /\ cover0 = 0
    /\ len = 0
    /\ cover_ = 0
    /\ data = <<>>
    /\ drained = 0
    /\ cstart = 0
    /\ event = 0
    /\ cov = [i \in 1..MaxCalls |-> -1]
    /\ executed = <<>>
    /\ acked = {}
    /\ fail = <<>>

(* ============================== boot() ================================== *)
\* the frame of the port allocator, but for the boot thread's pc
portRest == <<PORTS, mutex, poisoned, inuse, cursor, ret, dropping, held,
              freed>>

\* QemuHandle::kill_qemu: if self.qemu.kill().is_ok() { let _ = self.qemu.wait(); }
\* on a child c with the SIGKILL flag k. Child::kill signals a child that has
\* not been reaped (running or a zombie) and wait() then reaps it; on a
\* reaped child it sends nothing.
kill_qemu(c, k) ==
    IF c = "reaped" THEN [child |-> c, killed |-> k]
    ELSE [child |-> "reaped", killed |-> (k \/ c = "running")]

\* boot returns r: the locals are dropped on the way out
Returning(r, stderr) == result' = [kind |-> r, stderr |-> stderr]

\* mutant of BootStart: the port is reserved whatever static_conf says
BootStart_NoTargetCheck ==
    /\ bpc = "start"
    /\ tpc' = [tpc EXCEPT ![BootThread] = "call"]
    /\ bpc' = "reserve"
    /\ UNCHANGED result
    /\ UNCHANGED <<portRest, execVars, fnVars>>
    /\ UNCHANGED <<target_ok, child, killed, handle, wait_duration, waited,
                   alive, slept, rounds, dead_round, probe_ok, logs_read,
                   last_probe, ssh_port>>

\* build_qemu_command: static_conf(&conf.target).ok_or_else(Config)?; the
\* command line up to  get_free_port()
BootStart ==
    /\ bpc = "start"
    /\ IF target_ok
       THEN /\ tpc' = [tpc EXCEPT ![BootThread] = "call"]
            /\ bpc' = "reserve"
            /\ UNCHANGED result
       ELSE /\ Returning("Config", FALSE)
            /\ bpc' = "returned"
            /\ UNCHANGED tpc
    /\ UNCHANGED <<portRest, execVars, fnVars>>
    /\ UNCHANGED <<target_ok, child, killed, handle, wait_duration, waited,
                   alive, slept, rounds, dead_round, probe_ok, logs_read,
                   last_probe, ssh_port>>

\* get_free_port().ok_or(BootError::NoFreePort)? : None
BootNoPort ==
    /\ bpc = "reserve"
    /\ tpc[BootThread] = "none"
    /\ tpc' = [tpc EXCEPT ![BootThread] = "idle"]
    /\ Returning("NoFreePort", FALSE)
    /\ bpc' = "returned"
    /\ UNCHANGED <<portRest, execVars, fnVars>>
    /\ UNCHANGED <<target_ok, child, killed, handle, wait_duration, waited,
                   alive, slept, rounds, dead_round, probe_ok, logs_read,
                   last_probe, ssh_port>>

\* Some(guard): the rest of the command line; Ok((qemu_cmd, ssh_fwd_port))
BootGotPort ==
    /\ bpc = "reserve"
    /\ tpc[BootThread] = "some"
    /\ held' = [held EXCEPT ![BootThread][ret[BootThread]] = @ + 1]
    /\ ret' = [ret EXCEPT ![BootThread] = PortLo]
    /\ tpc' = [tpc EXCEPT ![BootThread] = "idle"]
    /\ bpc' = "spawn"
    /\ freed' = {}
    /\ UNCHANGED <<PORTS, mutex, poisoned, inuse, cursor, dropping, execVars, fnVars>>
    /\ UNCHANGED <<target_ok, child, killed, handle, wait_duration, waited,
                   alive, result, slept, rounds, dead_round, probe_ok,
                   logs_read, last_probe, ssh_port>>

\* the port of the guard boot holds: ssh_fwd_port.0
ssh_fwd_port == CHOOSE p \in PortRange : held[BootThread][p] > 0

\* let mut child = qemu_cmd.spawn()?;  the QemuHandle is built around it,
\* ssh_port: ssh_fwd_port.0 (a copy of the number; the guard stays a local
\* of boot); wait_duration = 500ms, waited = 0, alive = false
BootSpawn ==
    /\ bpc = "spawn"
    /\ \/ /\ child' = "running"
          /\ handle' = "boot"
          /\ ssh_port' = ssh_fwd_port
          /\ wait_duration' = InitWait
          /\ waited' = 0
          /\ alive' = FALSE
          /\ bpc' = "loop"
          /\ UNCHANGED result
       \/ /\ Returning("Spawn", FALSE)
          /\ bpc' = "drop_guard"
          /\ UNCHANGED <<child, handle, wait_duration, waited, alive,
                         ssh_port>>
    /\ UNCHANGED <<portVars, execVars, fnVars>>
    /\ UNCHANGED <<target_ok, killed, slept, rounds, dead_round, probe_ok,
                   logs_read, last_probe>>

\* while waited < total { sleep(wait_duration);
BootSleep ==
    /\ bpc = "loop"
    /\ waited < total
    /\ slept' = slept + wait_duration
    /\ bpc' = "probe"
    /\ UNCHANGED <<portVars, execVars, fnVars>>
    /\ UNCHANGED <<target_ok, child, killed, handle, wait_duration, waited,
                   alive, result, rounds, dead_round, probe_ok, logs_read,
                   last_probe, ssh_port>>

\* the loop condition fails: the budget is used up
BootTimeout ==
    /\ bpc = "loop"
    /\ ~(waited < total)
    /\ bpc' = "after"
    /\ UNCHANGED <<portVars, execVars, fnVars>>
    /\ UNCHANGED <<target_ok, child, killed, handle, wait_duration, waited,
                   alive, result, slept, rounds, dead_round, probe_ok,
                   logs_read, last_probe, ssh_port>>

\* if qemu_handle.is_alive()? { alive = true; break; }
\* the ssh probe fails to run (Err), or runs and reports the guest, which
\* answers only through the running qemu's port forward
BootProbe ==
    /\ bpc = "probe"
    /\ dead_round' = (child = "exited")
    /\ \/ /\ Returning("Spawn", FALSE)
          /\ bpc' = "drop_handle"
          /\ UNCHANGED <<alive, probe_ok>>
       \/ /\ child = "running"
          /\ alive' = TRUE
          /\ probe_ok' = TRUE
          /\ bpc' = "after"
          /\ UNCHANGED result
       \/ /\ bpc' = "try_wait"
          /\ UNCHANGED <<alive, probe_ok, result>>
    /\ UNCHANGED <<portVars, execVars, fnVars>>
    /\ UNCHANGED <<target_ok, child, killed, handle, wait_duration, waited,
                   slept, rounds, logs_read, last_probe, ssh_port>>

\* mutant of BootTryWait: the interval is decreased without the floor test
BootTryWait_NoFloor ==
    /\ bpc = "try_wait"
    /\ child = "running"
    /\ waited' = waited + wait_duration
    /\ wait_duration' = wait_duration - detla
    /\ rounds' = rounds + 1
    /\ bpc' = "loop"
    /\ UNCHANGED <<child, killed, handle, logs_read, result>>
    /\ UNCHANGED <<portVars, execVars, fnVars>>
    /\ UNCHANGED <<target_ok, alive, slept, dead_round, probe_ok, last_probe,
                   ssh_port>>

\* mutant of BootTryWait: an exited child is not looked for
BootTryWait_NoExitCheck ==
    /\ bpc = "try_wait"
    /\ waited' = waited + wait_duration
    /\ wait_duration' = IF wait_duration > min_wait_duration
                        THEN wait_duration - detla
                        ELSE wait_duration
    /\ rounds' = rounds + 1
    /\ bpc' = "loop"
    /\ UNCHANGED <<child, killed, handle, logs_read, result>>
    /\ UNCHANGED <<portVars, execVars, fnVars>>
    /\ UNCHANGED <<target_ok, alive, slept, dead_round, probe_ok, last_probe,
                   ssh_port>>

\* mutant of BootTryWait: a completed round adds nothing to waited
BootTryWait_NoAdvance ==
    /\ bpc = "try_wait"
    /\ \/ /\ Returning("Spawn", FALSE)
          /\ bpc' = "drop_handle"
          /\ UNCHANGED <<child, killed, handle, logs_read, waited,
                         wait_duration, rounds>>
       \/ /\ child = "exited"
          /\ child' = kill_qemu("reaped", killed).child
          /\ killed' = kill_qemu("reaped", killed).killed
          /\ logs_read' = TRUE
          /\ handle' = "consumed"
          /\ Returning("Config", TRUE)
          /\ bpc' = "drop_guard"
          /\ UNCHANGED <<waited, wait_duration, rounds>>
       \/ /\ child = "running"
          /\ waited' = waited
          /\ wait_duration' = IF wait_duration > min_wait_duration
                              THEN wait_duration - detla
                              ELSE wait_duration
          /\ rounds' = rounds + 1
          /\ bpc' = "loop"
          /\ UNCHANGED <<child, killed, handle, logs_read, result>>
    /\ UNCHANGED <<portVars, execVars, fnVars>>
    /\ UNCHANGED <<target_ok, alive, slept, dead_round, probe_ok, last_probe,
                   ssh_port>>

\* if let Some(status) = qemu_handle.qemu.try_wait()? {
\*     let (_, stderr) = qemu_handle.output(); return Err(Config(.. stderr)) }
\* waited += wait_duration;
\* if wait_duration > min_wait_duration { wait_duration -= detla; }
\* try_wait reaps an exited child; output() then runs kill_qemu and reads
\* the logs, consuming the handle
BootTryWait ==
    /\ bpc = "try_wait"
    /\ \/ /\ Returning("Spawn", FALSE)
          /\ bpc' = "drop_handle"
          /\ UNCHANGED <<child, killed, handle, logs_read, waited,
                         wait_duration, rounds>>
       \/ /\ child = "exited"
          /\ child' = kill_qemu("reaped", killed).child
          /\ killed' = kill_qemu("reaped", killed).killed
          /\ logs_read' = TRUE
          /\ handle' = "consumed"
          /\ Returning("Config", TRUE)
          /\ bpc' = "drop_guard"
          /\ UNCHANGED <<waited, wait_duration, rounds>>
       \/ /\ child = "running"
          /\ waited' = waited + wait_duration
          /\ wait_duration' = IF wait_duration > min_wait_duration
                              THEN wait_duration - detla
                              ELSE wait_duration
          /\ rounds' = rounds + 1
          /\ bpc' = "loop"
          /\ UNCHANGED <<child, killed, handle, logs_read, result>>
    /\ UNCHANGED <<portVars, execVars, fnVars>>
    /\ UNCHANGED <<target_ok, alive, slept, dead_round, probe_ok, last_probe,
                   ssh_port>>

\* mutant of BootAfter: the handle is returned whether or not alive is set
BootAfter_AlwaysOk ==
    /\ bpc = "after"
    /\ Returning("Ok", FALSE)
    /\ handle' = "caller"
    /\ bpc' = "drop_guard"
    /\ UNCHANGED <<portVars, execVars, fnVars>>
    /\ UNCHANGED <<target_ok, child, killed, wait_duration, waited, alive,
                   slept, rounds, dead_round, probe_ok, logs_read, last_probe,
                   ssh_port>>

\* mutant of BootAfter: the guard leaves boot with the handle it returns
BootAfter_KeepGuard ==
    /\ bpc = "after"
    /\ IF alive
       THEN /\ Returning("Ok", FALSE)
            /\ handle' = "caller"
            /\ bpc' = "returned"
       ELSE /\ Returning("Config", FALSE)
            /\ bpc' = "drop_handle"
            /\ UNCHANGED handle
    /\ UNCHANGED <<portVars, execVars, fnVars>>
    /\ UNCHANGED <<target_ok, child, killed, wait_duration, waited, alive,
                   slept, rounds, dead_round, probe_ok, logs_read, last_probe,
                   ssh_port>>

\* if alive { Ok(qemu_handle) } else { Err(Config("failed to boot: ..")) }
\* ssh_fwd_port, a local of boot, is dropped on either return
BootAfter ==
    /\ bpc = "after"
    /\ IF alive
       THEN /\ Returning("Ok", FALSE)
            /\ handle' = "caller"
            /\ bpc' = "drop_guard"
       ELSE /\ Returning("Config", FALSE)
            /\ bpc' = "drop_handle"
            /\ UNCHANGED handle
    /\ UNCHANGED <<portVars, execVars, fnVars>>
    /\ UNCHANGED <<target_ok, child, killed, wait_duration, waited, alive,
                   slept, rounds, dead_round, probe_ok, logs_read, last_probe,
                   ssh_port>>

\* mutant of BootDropHandle: the handle goes away without kill_qemu
BootDropHandle_NoKill ==
    /\ bpc = "drop_handle"
    /\ handle' = "dropped"
    /\ bpc' = "drop_guard"
    /\ UNCHANGED <<portVars, execVars, fnVars>>
    /\ UNCHANGED <<target_ok, child, killed, wait_duration, waited, alive,
                   result, slept, rounds, dead_round, probe_ok, logs_read,
                   last_probe, ssh_port>>

\* an error return with the handle still owned by boot:
\* impl Drop for QemuHandle { self.kill_qemu() }
BootDropHandle ==
    /\ bpc = "drop_handle"
    /\ child' = kill_qemu(child, killed).child
    /\ killed' = kill_qemu(child, killed).killed
    /\ handle' = "dropped"
    /\ bpc' = "drop_guard"
    /\ UNCHANGED <<portVars, execVars, fnVars>>
    /\ UNCHANGED <<target_ok, wait_duration, waited, alive, result, slept,
                   rounds, dead_round, probe_ok, logs_read, last_probe, ssh_port>>

\* ssh_fwd_port goes out of scope: PortGuard::drop takes the mutex
BootDropGuard ==
    /\ bpc = "drop_guard"
    /\ \E p \in PortRange : DropLock(BootThread, p)

\* the guard is gone and boot has returned
BootReturn ==
    /\ bpc = "drop_guard"
    /\ tpc[BootThread] = "idle"
    /\ \A p \in PortRange : held[BootThread][p] = 0
    /\ bpc' = "returned"
    /\ UNCHANGED <<portVars, execVars, fnVars>>
    /\ UNCHANGED <<target_ok, child, killed, handle, wait_duration, waited,
                   alive, result, slept, rounds, dead_round, probe_ok,
                   logs_read, last_probe, ssh_port>>

\* the qemu process exits on its own
ChildExit ==
    /\ child = "running"
    /\ child' = "exited"
    /\ UNCHANGED <<portVars, execVars, fnVars>>
    /\ UNCHANGED <<bpc, target_ok, killed, handle, wait_duration, waited,
                   alive, result, slept, rounds, dead_round, probe_ok,
                   logs_read, last_probe, ssh_port>>

\* the caller probes the handle it was given: QemuHandle::is_alive
HandleIsAlive ==
    /\ bpc = "returned"
    /\ handle = "caller"
    /\ \E r \in {"true", "false", "err"} :
          /\ r = "true" => child = "running"
          /\ last_probe' = r
    /\ UNCHANGED <<portVars, execVars, fnVars>>
    /\ UNCHANGED <<bpc, target_ok, child, killed, handle, wait_duration,
                   waited, alive, result, slept, rounds, dead_round, probe_ok,
                   logs_read, ssh_port>>

\* QemuHandle::output(mut self): kill_qemu, read_all of both logs; self is
\* dropped at the end (kill_qemu once more, on the reaped child)
HandleOutput ==
    /\ bpc = "returned"
    /\ handle = "caller"
    /\ child' = kill_qemu(child, killed).child
    /\ killed' = kill_qemu(child, killed).killed
    /\ logs_read' = TRUE
    /\ handle' = "consumed"
    /\ UNCHANGED <<portVars, execVars, fnVars>>
    /\ UNCHANGED <<bpc, target_ok, wait_duration, waited, alive, result,
                   slept, rounds, dead_round, probe_ok, last_probe, ssh_port>>

\* the caller drops the handle: impl Drop for QemuHandle
HandleDrop ==
    /\ bpc = "returned"
    /\ handle = "caller"
    /\ child' = kill_qemu(child, killed).child
    /\ killed' = kill_qemu(child, killed).killed
    /\ handle' = "dropped"
    /\ UNCHANGED <<portVars, execVars, fnVars>>
    /\ UNCHANGED <<bpc, target_ok, wait_duration, waited, alive, result,
                   slept, rounds, dead_round, probe_ok, logs_read, last_probe,
                   ssh_port>>

\* none of the functions specified on their own has been called
FnIdle == StatusIdle /\ BgIdle /\ InstrIdle

(* --------------------------- SpecPorts ---------------------------------- *)
InitPorts ==
    /\ PortsIdle
    /\ BootIdle
    /\ ExecIdle
    /\ FnIdle

NextPorts ==
    \/ \E t \in Workers : WorkerCall(t)
    \/ \E t \in Workers : GfpLock(t)
    \/ \E t \in Workers : GfpScan(t)
    \/ \E t \in Workers : WorkerSome(t)
    \/ \E t \in Workers : WorkerNone(t)
    \/ \E t \in Workers : \E p \in PortRange : DropLock(t, p)
    \/ \E t \in Workers : DropRemove(t)
    \/ \E p \in PortRange : EnvPort(p)

SpecPorts == InitPorts /\ [][NextPorts]_vars

(* --------------------------- SpecBoot ----------------------------------- *)
\* boot is called with a known or an unknown target, with the low ports of
\* the range bound by other programs, and with or without a guard another
\* thread holds on the lowest port
InitBoot ==
    /\ ExecIdle
    /\ FnIdle
    /\ bpc = "start"
    /\ target_ok \in BOOLEAN
    /\ child = "none"
    /\ killed = FALSE
    /\ handle = "none"
    /\ wait_duration = InitWait
    /\ waited = 0
    /\ alive = FALSE
    /\ result = [kind |-> "none", stderr |-> FALSE]
    /\ slept = 0
    /\ rounds = 0
    /\ dead_round = FALSE
    /\ probe_ok = FALSE
    /\ logs_read = FALSE
    /\ last_probe = "none"
    /\ ssh_port = 0
    /\ mutex = {}
    /\ poisoned = FALSE
    /\ \E k \in 0..NumPorts : inuse = {PortLo + j : j \in 0..(k - 1)}
    /\ tpc = [t \in Threads |-> "idle"]
    /\ cursor = [t \in Threads |-> PortLo]
    /\ ret = [t \in Threads |-> PortLo]
    /\ dropping = [t \in Threads |-> PortLo]
    /\ freed = {}
    /\ \E n \in 0..1 :
          /\ PORTS = {PortLo + j : j \in 0..(n - 1)}
          /\ held = [t \in Threads |-> [p \in PortRange |->
                        IF t = 1 /\ p \in PORTS THEN 1 ELSE 0]]

NextBoot ==
    \/ BootStart
    \/ GfpLock(BootThread) \/ GfpScan(BootThread)
    \/ BootNoPort \/ BootGotPort
    \/ BootSpawn
    \/ BootSleep \/ BootTimeout \/ BootProbe \/ BootTryWait \/ BootAfter
    \/ BootDropHandle \/ BootDropGuard \/ DropRemove(BootThread) \/ BootReturn
    \/ ChildExit
    \/ HandleIsAlive \/ HandleOutput \/ HandleDrop

SpecBoot == InitBoot /\ [][NextBoot]_vars

(* --------------------------- SpecBootFair ------------------------------- *)
\* the steps boot's own thread takes: the thread is scheduled, sleep()
\* returns, and no other thread holds the PORTS mutex for ever
BootStep ==
    \/ BootStart
    \/ GfpLock(BootThread) \/ GfpScan(BootThread)
    \/ BootNoPort \/ BootGotPort
    \/ BootSpawn
    \/ BootSleep \/ BootTimeout \/ BootProbe \/ BootTryWait \/ BootAfter
    \/ BootDropHandle \/ BootDropGuard \/ DropRemove(BootThread) \/ BootReturn

\* boot under a scheduler that keeps running its thread; the child's exit
\* and what the caller does with the handle stay unforced
SpecBootFair == InitBoot /\ [][NextBoot]_vars /\ WF_vars(BootStep)

(* --------------------------- SpecExec ----------------------------------- *)
ExecInit ==
    /\ xpc \in {"instrument", "uncalled"}
    /\ exit_code = "none"
    /\ \E n \in 0..MaxCalls : prog = [i \in 1..n |-> i]
    /\ unit = <<>>
    /\ gpc = "notrun"
    /\ bi = 0
    /\ rc = -1
    /\ fd_open = FALSE
    /\ mapped = FALSE
    /\ cover0 = 0
    /\ len = 0
    /\ cover_ = 0
    /\ data = <<>>
    /\ drained = 0
    /\ cstart = 0
    /\ event = 0
    /\ cov = [i \in 1..MaxCalls |-> -1]
    /\ executed = <<>>
    /\ acked = {}
    /\ fail = <<>>

\* the executor is given a program and calls exec or bg_exec on it
InitExec ==
    /\ ExecInit /\ PortsIdle /\ BootIdle /\ StatusIdle /\ InstrIdle
    /\ bg_pc = IF xpc = "uncalled" THEN "start" ELSE "uncalled"
    /\ bg_src = <<>>
    /\ cc_made = 0
    /\ compiled = FALSE
    /\ ran = FALSE

NextExec ==
    \/ Instrument \/ NewTcc \/ Compile \/ Relocate \/ GetSymbol \/ ExecExit
    \/ Execute
    \/ CtrlDrain \/ CtrlAck
    \/ BgTranslate \/ BgCheck \/ BgNewTcc \/ BgCompile \/ BgRun

SpecExec == InitExec /\ [][NextExec]_vars

(* --------------------------- SpecStatus --------------------------------- *)
\* StatusCode as i32 and StatusCode::from on every variant and on the i32
\* values around the defined ordinals
InitStatus ==
    /\ ExecIdle /\ PortsIdle /\ BootIdle /\ BgIdle /\ InstrIdle
    /\ variant \in Variants
    /\ ord \in (-MaxOrd)..MaxOrd
    /\ encoded = FALSE
    /\ decoded = "none"

NextStatus == Encode \/ Decode

SpecStatus == InitStatus /\ [][NextStatus]_vars

(* --------------------------- SpecInstrument ----------------------------- *)
\* the programs of at most MaxCalls calls over the target's descriptors
Progs == UNION {[1..n -> FnInfos] : n \in 0..MaxCalls}

\* p with call i once more, right after itself
Repeat(p, i) ==
    [k \in 1..(Len(p) + 1) |-> IF k <= i THEN p[k] ELSE p[k - 1]]

\* p with the calls i and j exchanged
Swap(p, i, j) ==
    [k \in 1..Len(p) |-> IF k = i THEN p[j] ELSE IF k = j THEN p[i] ELSE p[k]]

\* p itself, p with one call repeated, p with two calls exchanged
Variations(p) ==
    {p} \cup {Repeat(p, i) : i \in 1..Len(p)}
        \cup {Swap(p, ij[1], ij[2]) : ij \in (1..Len(p)) \X (1..Len(p))}

\* instrument_prog is given a program and a variation of it
InitInstrument ==
    /\ ExecIdle /\ PortsIdle /\ BootIdle /\ StatusIdle /\ BgIdle
    /\ iprog \in Progs
    /\ iprog2 \in Variations(iprog)
    /\ includes = {}
    /\ includes2 = {}
    /\ idone = {}

NextInstrument == InstrumentProg \/ InstrumentProg2

SpecInstrument == InitInstrument /\ [][NextInstrument]_vars

(* ===================== properties of SpecExec =========================== *)
\* the bytes written to the data channel for call i
Sent(i) == Cardinality({k \in DOMAIN data : data[k].call = i})

\* the full buffer of call i: the prefix and count * element_size
FullLen(i) == PrefixSize + cov[i] * ElemSize

\* execute() has gone past the bracket of call i (block i + 1 of the body)
Past(i) == bi > i + 1

\* buffers begun and not acknowledged
Outstanding == {i \in 1..MaxCalls : Sent(i) > 0 /\ i \notin acked}

\* C1: lockstep. Whenever execute() is past the bracket of a call i with a
\* non-zero count, and whenever a byte of a later call is on the data
\* channel, the full buffer of call i has been written and its token has
\* been read; at most one buffer is outstanding and unacknowledged.
C1_Lockstep ==
    /\ \A i \in 1..MaxCalls :
          (cov[i] > 0 /\ (Past(i) \/ \E k \in DOMAIN data : data[k].call > i))
              => (Sent(i) = FullLen(i) /\ i \in acked)
    /\ Cardinality(Outstanding) <= 1

\* a second call is writing its buffer after a first call with coverage
C1_Witness ==
    /\ cov[1] > 0
    /\ CurCall = 2
    /\ Sent(2) > 0

\* C2: a call whose count is zero leaves no byte on the data channel, has no
\* token read for it and no send failure reported: its bracket ends in the
\* next block.
C2_ZeroCountSkipped ==
    \A i \in 1..MaxCalls :
        cov[i] = 0 =>
            /\ Sent(i) = 0
            /\ i \notin acked
            /\ (fail # <<>> /\ fail[2] = i) => fail[1] = "disable"
            /\ CurCall = i => gpc \in {"disable", "sync_send", "returned"}

\* a zero-count call was passed and the next block is running
C2_Witness ==
    /\ cov[1] = 0
    /\ Past(1)
    /\ gpc # "returned"

\* the status each failing step of execute() stands for
StepStatus(step) ==
    CASE step = "open" -> "KcovOpenErr"
      [] step = "init_trace" -> "KcovInitErr"
      [] step = "mmap" -> "MmapErr"
      [] step = "enable" -> "KcovEnableErr"
      [] step = "disable" -> "KcovDisableErr"
      [] step \in {"write_len", "write_cov", "read_event"} -> "CovSendErr"
      [] step = "munmap" -> "MmapErr"
      [] step = "close" -> "KcovCloseErr"

\* C7: fail-fast. A failed step has execute() returned at once with the
\* step's status; after a setup failure no call statement has run, after a
\* failure in the bracket of call i no statement of a later call has run (nor
\* a byte of one been written).
C7_FailFast ==
    fail # <<>> =>
        /\ gpc = "returned"
        /\ From(rc) = StepStatus(fail[1])
        /\ fail[1] \in {"open", "init_trace", "mmap"} => executed = <<>>
        /\ fail[1] \in {"enable", "disable", "write_len", "write_cov",
                        "read_event"}
              => /\ fail[2] \in 1..Len(prog)
                 /\ \A k \in DOMAIN executed : executed[k] <= fail[2]
                 /\ \A k \in DOMAIN data : data[k].call <= fail[2]
                 /\ fail[1] = "enable" =>
                        \A k \in DOMAIN executed : executed[k] < fail[2]

\* the first of two calls failed in its bracket
C7_Witness ==
    /\ Len(prog) = 2
    /\ fail # <<>>
    /\ fail[2] = 1
    /\ fail[1] = "read_event"

\* C8: execute() returns 0 exactly when setup, every bracket and teardown
\* succeeded; any other return value is in 1..7 and decodes to the status of
\* the step that failed, so exec never reaches unreachable!().
C8_StatusDefined ==
    /\ gpc = "returned" =>
          /\ rc \in 0..7
          /\ From(rc) # "unreachable"
          /\ rc = 0 <=> fail = <<>>
          /\ rc = 0 => /\ executed = [i \in 1..Len(prog) |-> i]
                       /\ bi = Len(unit)
                       /\ ~mapped /\ ~fd_open
          /\ rc # 0 => From(rc) = StepStatus(fail[1])
    /\ xpc = "panicked" => gpc = "notrun"
    /\ (xpc = "exited" /\ gpc = "returned") =>
          exit_code = IF rc = 0 THEN "OK" ELSE "SOFTWARE"

\* execute() returned a failure status and exec decoded it
C8_Witness ==
    /\ xpc = "exited"
    /\ gpc = "returned"
    /\ rc = 7

\* C9: exec ends in exit() on every path: with OK exactly when execute()
\* returned 0, with SOFTWARE otherwise, and without invoking the generated
\* code when a step before the invocation failed.
C9_ExecAlwaysExits ==
    /\ xpc # "panicked"
    /\ xpc = "exited" =>
          exit_code = IF gpc = "returned" /\ rc = 0 THEN "OK" ELSE "SOFTWARE"
    /\ (xpc = "exited" /\ gpc # "returned") => gpc = "notrun"

\* what has been written to the data channel for call i, in order
CallBytes(i) ==
    LET OfCall(b) == b.call = i IN SelectSeq(data, OfCall)

\* C18: for a call with count c > 0, however write() splits the payload,
\* the data channel gets the 4 bytes of the count and then the payload bytes
\* 0, 1, 2, .. of the buffer in order, none twice and none left out, at most
\* c * element_size of them; the loop goes on exactly while bytes are left,
\* from where the last write ended, and the acknowledgment is read only
\* after all of them.
C18_WriteUntilComplete ==
    \A i \in 1..MaxCalls :
        cov[i] > 0 =>
            /\ Len(CallBytes(i)) <= FullLen(i)
            /\ \A k \in DOMAIN CallBytes(i) :
                  IF k <= PrefixSize
                  THEN CallBytes(i)[k] = [call |-> i, kind |-> "len",
                                          idx |-> k - 1, val |-> cov[i]]
                  ELSE /\ CallBytes(i)[k].kind = "cov"
                       /\ CallBytes(i)[k].idx = k - PrefixSize - 1
            /\ (CurCall = i /\ gpc = "write") =>
                  /\ len > 0
                  /\ len = FullLen(i) - Sent(i)
                  /\ cover_ = Sent(i) - PrefixSize
            /\ (CurCall = i /\ gpc = "read") => Sent(i) = FullLen(i)
            /\ i \in acked => Sent(i) = FullLen(i)

\* a write took part of the payload and the loop is going round again
C18_Witness ==
    /\ gpc = "write"
    /\ cov[CurCall] = MaxCov
    /\ cover_ > 0
    /\ len > 0

\* the steps of a coverage bracket that can fail
BracketSteps == {"enable", "disable", "write_len", "write_cov", "read_event"}

\* C20: when execute() returns after setup succeeded, on normal completion
\* or from a failed step of a call's bracket, the coverage buffer has been
\* unmapped and the coverage device closed.
C20_TeardownOnAllPaths ==
    (gpc = "returned" /\ (fail = <<>> \/ fail[1] \in BracketSteps)) =>
        (~mapped /\ ~fd_open)

\* the blocks of the body that are coverage brackets
Brackets == {k \in DOMAIN unit : unit[k].kind = "stmt"}

\* C15: for a program of N calls the execute body instrument_prog builds is
\* one setup block, then exactly N coverage brackets, the bracket of call i
\* in place i, then one teardown block; for N = 0 it is setup followed
\* directly by teardown.
C15_BracketPerCall ==
    xpc \notin {"instrument", "uncalled"} =>
        /\ Len(unit) = Len(prog) + 2
        /\ unit[1].kind = "kcov_open"
        /\ unit[Len(unit)].kind = "clean"
        /\ Cardinality(Brackets) = Len(prog)
        /\ \A i \in 1..Len(prog) : unit[i + 1] = [kind |-> "stmt", call |-> i]
        /\ \A k \in DOMAIN unit :
              (unit[k].kind = "kcov_open" <=> k = 1)
                  /\ (unit[k].kind = "clean" <=> k = Len(unit))
        /\ Len(prog) = 0 => unit = <<[kind |-> "kcov_open", call |-> 0],
                                     [kind |-> "clean", call |-> 0]>>

\* the body of an empty program runs: teardown follows setup directly
C15_Witness ==
    /\ Len(prog) = 0
    /\ xpc = "execute"
    /\ gpc = "munmap"
    /\ bi = 2
    /\ executed = <<>>

\* C16: bg_exec on a program without calls creates no compiler, compiles
\* nothing and runs nothing; it returns, without a panic or an exit, and
\* none of its steps changes anything but its own translated text.
C16_BgEmptyNoop ==
    /\ []((bg_pc # "uncalled" /\ Len(prog) = 0) =>
              /\ bg_pc \in {"start", "check", "returned"}
              /\ bg_src = <<>>
              /\ cc_made = 0
              /\ ~compiled
              /\ ~ran)
    /\ [][(bg_pc # "uncalled" /\ Len(prog) = 0) =>
              UNCHANGED <<execVars, portVars, bootVars, statusVars, cc_made,
                          compiled, ran>>]_vars

\* bg_exec has returned from an empty program
C16_Witness ==
    /\ Len(prog) = 0
    /\ bg_pc = "returned"
    /\ cc_made = 0

(* ===================== properties of SpecPorts ========================== *)
\* the PortGuards alive that hold port p: those their owners keep, those
\* get_free_port is returning and those whose drop has not finished
Guards(p) ==
    LiveCount(p)
      + Cardinality({t \in Threads : tpc[t] = "some" /\ ret[t] = p})
      + Cardinality({t \in Threads : tpc[t] = "drop" /\ dropping[t] = p})

\* C3: under every interleaving of reservations and drops, no two PortGuards
\* alive at the same time hold the same port.
C3_DistinctLivePorts == \A p \in PortRange : Guards(p) <= 1

\* two reservations that overlapped have both returned a guard
C3_Witness ==
    /\ tpc[1] = "some"
    /\ tpc[2] = "some"
    /\ ret[1] # ret[2]

(* ===================== properties of SpecBoot =========================== *)
\* C4: no guest process is leaked. Once the child is spawned, a handle owns
\* it for as long as it is running or unreaped; every way the handle ends
\* (timeout, early exit, probe error, output(), drop) and every error return
\* of boot leaves the child reaped, with SIGKILL sent if it was still running.
C4_NoLeakedChild ==
    /\ (child = "none") <=> (handle = "none")
    /\ child \in {"running", "exited"} => handle \in {"boot", "caller"}
    /\ handle \in {"consumed", "dropped"} => child = "reaped"
    /\ (bpc = "returned" /\ result.kind # "Ok") => child \in {"none", "reaped"}

\* boot timed out with the child still running: it was killed and reaped
C4_Witness ==
    /\ bpc = "returned"
    /\ result = [kind |-> "Config", stderr |-> FALSE]
    /\ ~(waited < total)
    /\ handle = "dropped"
    /\ killed
    /\ child = "reaped"

\* boot is leaving, or has left, the polling loop with an error
Leaving == bpc \in {"drop_handle", "drop_guard", "returned"}

\* C5 as claimed: when the child had exited as a round's probe ran, the round
\* ends boot with BootError::Config embedding the captured stderr; no further
\* round is slept through and no handle is returned.
C5_EarlyExitIsConfig ==
    dead_round =>
        \/ bpc = "try_wait"
        \/ /\ Leaving
           /\ result = [kind |-> "Config", stderr |-> TRUE]
           /\ handle # "caller"

\* C5 as amended: the round ends boot without a handle either with
\* BootError::Config embedding the stderr that output() read, or, when the
\* probe or try_wait itself failed with an I/O error, with BootError::Spawn.
C5_EarlyExitEndsRound ==
    dead_round =>
        \/ bpc = "try_wait"
        \/ /\ Leaving
           /\ \/ result = [kind |-> "Config", stderr |-> TRUE] /\ logs_read
              \/ result = [kind |-> "Spawn", stderr |-> FALSE]
           /\ handle \in {"boot", "consumed", "dropped"}
           /\ ~alive

\* the child had exited in the first round and boot returned Config + stderr
C5_Witness ==
    /\ dead_round
    /\ bpc = "returned"
    /\ result = [kind |-> "Config", stderr |-> TRUE]
    /\ rounds = 0
    /\ slept = InitWait

Max(a, b) == IF a >= b THEN a ELSE b

\* C6: the sleep interval starts at 500ms, goes down by 100ms per completed
\* round, never rises and never falls below 100ms; the time slept never
\* exceeds the 10-minute budget by more than one interval.
C6_Backoff ==
    /\ [](/\ wait_duration >= min_wait_duration
          /\ wait_duration = Max(InitWait - rounds * detla, min_wait_duration)
          /\ slept <= total + wait_duration
          /\ bpc = "after" /\ ~alive => slept <= total + min_wait_duration)
    /\ [][/\ wait_duration' <= wait_duration
          /\ wait_duration' # wait_duration
                => wait_duration' = wait_duration - detla]_vars

\* the budget ran out with the interval at its floor
C6_Witness ==
    /\ bpc = "after"
    /\ ~alive
    /\ wait_duration = min_wait_duration
    /\ slept >= total

\* Unbooted -> Booting -> Ready -> Terminated, as a rank of the handle
Lifecycle(h) ==
    CASE h = "none" -> 0
      [] h = "boot" -> 1
      [] h = "caller" -> 2
      [] h \in {"consumed", "dropped"} -> 3

\* C10: boot returns a handle exactly when a probe of its own succeeded, in
\* a round begun within the budget and never in a round that found the
\* child exited; the lifecycle only moves forward, Ready is entered from
\* Booting only, and a handle torn down by output() or drop is not probed
\* or used again.
C10_HandleIffProbe ==
    /\ [](/\ handle = "caller" => (result.kind = "Ok" /\ probe_ok)
          /\ result.kind = "Ok" => (probe_ok /\ waited < total /\ ~dead_round
                                    /\ handle # "boot")
          /\ bpc = "returned" => (result.kind = "Ok" <=> probe_ok)
          /\ (bpc = "returned" /\ probe_ok) => handle \notin {"none", "boot"})
    /\ [][/\ Lifecycle(handle') >= Lifecycle(handle)
          /\ Lifecycle(handle') = 2 => Lifecycle(handle) \in {1, 2}
          /\ Lifecycle(handle) = 3
                => UNCHANGED <<handle, child, killed, last_probe, logs_read>>
         ]_vars

\* a handle that was returned Ready has been torn down by output()
C10_Witness ==
    /\ bpc = "returned"
    /\ result.kind = "Ok"
    /\ handle = "consumed"
    /\ last_probe = "true"

\* the rounds the budget allows: the four rounds that bring the interval
\* from 500ms to its floor, then one round per 100ms that is left
MaxRounds ==
    LET down == (InitWait - min_wait_duration) \div detla
        used == down * InitWait - detla * ((down * (down - 1)) \div 2)
    IN down + ((total - used) + min_wait_duration - 1) \div min_wait_duration

\* C11: boot always terminates. Every completed round adds at least 100ms to
\* the accumulated wait, which never decreases, so the loop ends within
\* MaxRounds rounds; with no successful probe boot returns an error; and
\* under a scheduler that keeps running its thread boot does return.
C11_BootTerminates ==
    /\ [](/\ rounds <= MaxRounds
          /\ waited >= rounds * min_wait_duration
          /\ (bpc = "returned" /\ ~probe_ok)
                => result.kind \in {"Config", "NoFreePort", "Spawn"})
    /\ [][/\ waited' >= waited
          /\ rounds' # rounds => /\ rounds' = rounds + 1
                                 /\ waited' >= waited + min_wait_duration
         ]_vars
    /\ <>(bpc = "returned")

\* the budget ran out with no probe answered and the child still running,
\* and boot returned its error
C11_Witness ==
    /\ bpc = "returned"
    /\ ~probe_ok
    /\ killed
    /\ waited >= total
    /\ rounds = MaxRounds
    /\ result = [kind |-> "Config", stderr |-> FALSE]

\* boot's thread holds no PortGuard and is not inside the allocator
BootHoldsNoPort ==
    /\ tpc[BootThread] = "idle"
    /\ \A p \in PortRange : held[BootThread][p] = 0

\* C12: configuration errors precede any spawn. With an unknown target boot
\* returns BootError::Config with no child spawned, no port reserved and the
\* claimed set untouched; with no port to reserve it returns
\* BootError::NoFreePort with no child spawned and no guard held; no child
\* exists before both checks have passed.
C12_ConfigBeforeSpawn ==
    /\ [](/\ ~target_ok =>
                /\ child = "none" /\ handle = "none"
                /\ BootHoldsNoPort
                /\ bpc \in {"start", "returned"}
                /\ bpc = "returned"
                      => result = [kind |-> "Config", stderr |-> FALSE]
          /\ result.kind = "NoFreePort" =>
                /\ bpc = "returned"
                /\ child = "none" /\ handle = "none"
                /\ BootHoldsNoPort
          /\ bpc \in {"start", "reserve"} => child = "none")
    /\ [][~target_ok => UNCHANGED <<PORTS, held, tpc, child, handle>>]_vars

\* every port of the range was taken and boot returned NoFreePort
C12_Witness ==
    /\ bpc = "returned"
    /\ result.kind = "NoFreePort"
    /\ child = "none"
    /\ \A p \in PortRange : ~Bindable(p) \/ p \in PORTS

\* C19: the claimed set is exactly the set of ports that live PortGuards
\* hold, under every interleaving of reservations and drops; so the port a
\* drop removes is in the set, the assertion of PortGuard::drop never fails,
\* and the mutex is never poisoned.
C19_ClaimedIsLive ==
    /\ PORTS = {p \in PortRange : Guards(p) > 0}
    /\ \A t \in Threads : tpc[t] = "drop" => dropping[t] \in PORTS
    /\ \A t \in Threads : tpc[t] # "panicked"
    /\ ~poisoned

\* a drop is about to remove its port while another thread holds a guard
\* and waits for the mutex to reserve one more
C19_Witness ==
    /\ tpc[1] = "drop"
    /\ tpc[2] = "call"
    /\ \E p \in PortRange : held[2][p] = 1
    /\ Cardinality(PORTS) = 2

\* port p is eligible: bind() succeeds on it and the claimed set lacks it
Eligible(p) == Bindable(p) /\ p \notin PORTS

\* C13: get_free_port examines the range upwards from its low end, under the
\* mutex, and passes a port only when it is not eligible as it is examined;
\* it returns the first eligible port it meets, inserted into the claimed
\* set, and None only past the end of the range with the set untouched. A
\* finished drop leaves its port out of the claimed set, eligible again.
C13_LowestEligible ==
    /\ [](\A t \in Threads : tpc[t] = "scan" =>
              /\ mutex = {t}
              /\ cursor[t] \in PortLo..(PortLo + NumPorts))
    /\ [][\A t \in Threads :
            /\ (tpc[t] = "call" /\ tpc'[t] = "scan") => cursor'[t] = PortLo
            /\ tpc[t] = "scan" =>
                  /\ tpc'[t] \in {"scan", "some", "none"}
                  /\ tpc'[t] = "scan" =>
                        /\ PORTS' = PORTS
                        /\ cursor'[t] \in {cursor[t], cursor[t] + 1}
                        /\ cursor'[t] # cursor[t] =>
                              (cursor[t] \in PortRange /\ ~Eligible(cursor[t]))
                  /\ tpc'[t] = "some" =>
                        /\ ret'[t] = cursor[t]
                        /\ cursor[t] \in PortRange
                        /\ Eligible(cursor[t])
                        /\ PORTS' = PORTS \cup {cursor[t]}
                  /\ tpc'[t] = "none" =>
                        /\ cursor[t] = PortLo + NumPorts
                        /\ PORTS' = PORTS
            /\ (tpc[t] = "drop" /\ tpc'[t] = "idle") =>
                  /\ PORTS' = PORTS \ {dropping[t]}
                  /\ dropping[t] \notin PORTS'
         ]_vars

\* a reservation returns the port the last drop released, with a higher port
\* still claimed
C13_Witness ==
    \E t \in Workers :
        /\ tpc[t] = "some"
        /\ ret[t] \in freed
        /\ \E q \in PORTS : q > ret[t]

(* ===================== properties of SpecStatus ========================= *)
\* C14: decoding the ordinal of a variant gives the variant back, the
\* ordinals being 0..7 in declaration order; an i32 outside 0..7 is decoded
\* to no variant: StatusCode::from panics on it.
C14_RoundTrip ==
    /\ encoded => /\ ord \in 0..7
                  /\ StatusCodes[ord + 1] = variant
    /\ (encoded /\ decoded # "none") => decoded = variant
    /\ decoded # "none" =>
          /\ ord \in 0..7 => decoded = StatusCodes[ord + 1]
          /\ ord \notin 0..7 => (decoded = "unreachable" /\ decoded \notin Variants)

\* the last variant went through its ordinal and came back
C14_Witness ==
    /\ encoded
    /\ variant = "MmapErr"
    /\ ord = 7
    /\ decoded = "MmapErr"

(* ================= properties of SpecBoot: the port guard =============== *)
\* the ports that live guards of the other threads hold
OthersPorts ==
    {p \in PortRange : \E t \in Threads \ {BootThread} : held[t][p] > 0}

\* C21: the port guard boot reserves lives exactly as long as the boot call.
\* From the reservation until boot starts to return, boot holds one guard
\* and its port (the handle's ssh_port, once the handle is built) is in the
\* claimed set. Once boot has returned, by whatever path, its thread holds
\* no guard and the claimed set holds the ports of the other threads'
\* guards only; after a return that followed a reservation the port was
\* removed and is not in the set, and the ssh_port of a handle the caller
\* holds is not in the set.
C21_GuardEndsWithBoot ==
    /\ bpc \in {"spawn", "loop", "probe", "try_wait", "after", "drop_handle"}
          => /\ held[BootThread][ssh_fwd_port] = 1
             /\ ssh_fwd_port \in PORTS
             /\ handle = "boot" => ssh_port = ssh_fwd_port
    /\ bpc = "returned"
          => /\ BootHoldsNoPort
             /\ PORTS = OthersPorts
             /\ (target_ok /\ result.kind # "NoFreePort")
                   => \E p \in PortRange : freed = {p} /\ p \notin PORTS
             /\ handle = "caller"
                   => /\ result.kind = "Ok"
                      /\ freed = {ssh_port}
                      /\ ssh_port \notin PORTS

\* boot returned a handle next to another thread's guard, the caller probed
\* the handle and found the guest alive, and the handle's port is no longer
\* claimed while the other guard's port still is
C21_Witness ==
    /\ bpc = "returned"
    /\ result.kind = "Ok"
    /\ handle = "caller"
    /\ last_probe = "true"
    /\ ssh_port \in PortRange
    /\ ssh_port \notin PORTS
    /\ PORTS # {}

(* ===================== properties of SpecInstrument ===================== *)
\* the headers a call brings: its catalog entry and its declared includes
Brings(fn_info) ==
    (IF fn_info.call_name \in DOMAIN CTHS
     THEN {CTHS[fn_info.call_name][k] : k \in DOMAIN CTHS[fn_info.call_name]}
     ELSE {})
      \cup (IF fn_info.inc.attr /\ fn_info.inc.some
            THEN {fn_info.inc.vals[k] : k \in DOMAIN fn_info.inc.vals}
            ELSE {})

\* C17: the include set is the baseline united with what every call brings;
\* a program and the same program with a call repeated or with two calls
\* exchanged get the same include set.
C17_IncludeSet ==
    /\ 1 \in idone =>
          includes = Baseline \cup UNION {Brings(iprog[k]) : k \in DOMAIN iprog}
    /\ 2 \in idone =>
          includes2 = Baseline
                        \cup UNION {Brings(iprog2[k]) : k \in DOMAIN iprog2}
    /\ idone = {1, 2} => includes = includes2

\* a program whose call brings new headers, and the program with that call
\* repeated, have both been instrumented
C17_Witness ==
    /\ idone = {1, 2}
    /\ Len(iprog2) = Len(iprog) + 1
    /\ {"foo.h", "bar.h"} \subseteq includes
    /\ includes2 = includes

====
